---- MODULE Spec2Model ----
(***************************************************************************)
(* Model of polychromatic's Middleman facade (middleman.py) together with  *)
(* the backends it aggregates.  The OpenRazer backend and the helper       *)
(* process services (procpid) are collaborators whose code is not part of  *)
(* the sources at hand; the Undervolt backend is (backends/undervolt.py).  *)
(***************************************************************************)
EXTENDS Integers, Sequences, FiniteSets, TLC

\* ------------------------------------------------------------------ bounds
\* Number of distinct devices the OpenRazer daemon can have attached.
MaxDevices == 2
\* Most zones a device has.
MaxZones == 2
\* Most options a device has, over all of its zones.
MaxOptions == 2
\* Most parameters an option has.
MaxParams == 1

\* --------------------------------------------------------------- variables
VARIABLES
    inited,          \* Middleman.init() has run
    backends,        \* self.backends: initialised backends, registration order
    bad_init,        \* self.bad_init: backends whose init() returned false
    not_installed,   \* self.not_installed: ids of backends that are absent
    import_errors,   \* self.import_errors: keys of the dictionary
    troubleshooters, \* self.troubleshooters: keys of the dictionary
    device_cache,    \* self.device_cache: list of DeviceItem
    cache_sources,   \* backends whose device list was added to device_cache
    loaded,          \* a load of device_cache has completed, with no invalidation since
    init_log,        \* what init() attempted and whether it raised
    hw,              \* devices attached to the OpenRazer daemon
    daemon_up,       \* the OpenRazer daemon answers
    cpuinfo_brand,   \* cpuinfo.get_cpu_info() has the key 'brand'
    last,            \* the latest call and what it returned
    prev,            \* the call before it, when a later call can depend on it
    device,          \* a DeviceItem handed to the effect operations: its zones
    sw_effect,       \* DeviceSoftwareState(serial).get_effect(): "" when none
    applied,         \* option.apply() calls issued by the latest operation
    started,         \* ProcessManager.start_component() calls of the latest operation
    fx,              \* the latest effect operation and its result
    opt,             \* an Option handed to the option operations
    software,        \* procpid by serial: recorded effect and preset, running instance
    sw_calls         \* ProcessManager/DeviceSoftwareState calls of the latest operation

midvars == <<inited, backends, bad_init, not_installed, import_errors,
             troubleshooters, device_cache, cache_sources, loaded, init_log,
             hw, daemon_up, cpuinfo_brand, last, prev>>
fxvars == <<device, sw_effect, applied, started, fx, opt, software, sw_calls>>
vars == <<midvars, fxvars>>

\* ------------------------------------------------------------ the backends
KnownBackends == <<"openrazer", "undervolt">>
BackendIds == {KnownBackends[i] : i \in 1..Len(KnownBackends)}

DeviceNames == 1..MaxDevices
\* A name or serial no device has.
Unknown == MaxDevices + 1
SerialOf(n) == 100 + n
FormFactorOf(n) == IF n % 2 = 1 THEN "keyboard" ELSE "mouse"
FormFactors == {"keyboard", "mouse", "cpu"}

\* A DeviceItem as a backend creates it; Middleman fills in .backend.
DeviceItem(n) ==
    [name |-> n, serial |-> SerialOf(n), form_factor |-> FormFactorOf(n),
     backend |-> "unset"]

RECURSIVE ItemsFrom(_, _)
ItemsFrom(n, attached) ==
    IF n > MaxDevices THEN <<>>
    ELSE (IF n \in attached THEN <<DeviceItem(n)>> ELSE <<>>)
         \o ItemsFrom(n + 1, attached)

\* OpenRazerBackend.get_devices(): the attached devices, or a value that is
\* not a list when the daemon cannot be reached.
OpenRazerGetDevices(attached, up) ==
    IF up THEN [kind |-> "list", devices |-> ItemsFrom(1, attached)]
    ELSE [kind |-> "nonlist", devices |-> <<>>]

\* UndervoltBackend.get_devices(): builds a CpuDeviceItem from
\* cpuinfo.get_cpu_info()['brand'] (a KeyError when the key is absent) and
\* returns the empty list, the append being commented out.
UndervoltGetDevices(brand) ==
    IF brand THEN [kind |-> "list", devices |-> <<>>]
    ELSE [kind |-> "raise", devices |-> <<>>]

BackendGetDevices(b, attached, up, brand) ==
    IF b = "openrazer" THEN OpenRazerGetDevices(attached, up)
    ELSE UndervoltGetDevices(brand)

\* OpenRazerBackend.get_device_by_name()/get_device_by_serial().
OpenRazerLookup(n, attached, up) ==
    IF ~up THEN [kind |-> "str", name |-> Unknown]
    ELSE IF n \in attached THEN [kind |-> "DeviceItem", name |-> n]
    ELSE [kind |-> "None", name |-> Unknown]

\* UndervoltBackend.get_device_by_name()/get_device_by_serial(): empty bodies.
UndervoltLookup(n) == [kind |-> "None", name |-> Unknown]

BackendLookup(b, n, attached, up) ==
    IF b = "openrazer" THEN OpenRazerLookup(n, attached, up)
    ELSE UndervoltLookup(n)

\* What importing, constructing and init()-ing a backend can come to.
OpenRazerInitOutcomes == {"ImportError", "Exception", "init_false", "init_true"}
\* UndervoltBackend.init() returns True.
UndervoltInitOutcomes == {"ImportError", "Exception", "init_true"}

\* What a registered troubleshooter can come to: a list of results, False,
\* or an exception leaving it.
TroubleshooterOutcomes == {"results", "False", "KeyError", "Exception"}

\* ---------------------------------------------------------- Middleman.init
FreshCollections ==
    [backends |-> <<>>, bad_init |-> <<>>, not_installed |-> <<>>,
     import_errors |-> {}, attempted |-> <<>>, propagated |-> FALSE]

\* One try/except block of init() with every exception left to propagate.
InitBackend_NoExcept(st, id, outcome) ==
    LET s == [st EXCEPT !.attempted = Append(@, id)] IN
    CASE outcome = "init_true"  -> [s EXCEPT !.backends = Append(@, id)]
      [] outcome = "init_false" -> [s EXCEPT !.bad_init = Append(@, id)]
      [] OTHER                  -> [s EXCEPT !.propagated = TRUE]

\* One try/except block of init() whose else branch is missing.
InitBackend_NoElse(st, id, outcome) ==
    LET s == [st EXCEPT !.attempted = Append(@, id)] IN
    CASE outcome = "init_true"   -> [s EXCEPT !.backends = Append(@, id)]
      [] outcome = "init_false"  -> [s EXCEPT !.backends = Append(@, id),
                                              !.bad_init = Append(@, id)]
      [] outcome = "ImportError" -> [s EXCEPT !.not_installed = Append(@, id)]
      [] OTHER                   -> [s EXCEPT !.import_errors = @ \cup {id}]

\* One try/except block of init().
InitBackend(st, id, outcome) ==
    LET s == [st EXCEPT !.attempted = Append(@, id)] IN
    CASE outcome = "init_true"   -> [s EXCEPT !.backends = Append(@, id)]
      [] outcome = "init_false"  -> [s EXCEPT !.bad_init = Append(@, id)]
      [] outcome = "ImportError" -> [s EXCEPT !.not_installed = Append(@, id)]
      [] OTHER                   -> [s EXCEPT !.import_errors = @ \cup {id}]

\* The blocks of init() in order; an exception leaving one ends the call.
InitAll(o1, o2) ==
    LET s1 == InitBackend(FreshCollections, "openrazer", o1) IN
    IF s1.propagated THEN s1 ELSE InitBackend(s1, "undervolt", o2)

NoCall ==
    [op |-> "none", name |-> Unknown, key |-> "", kind |-> "None",
     devices |-> <<>>, item |-> Unknown, from |-> "", raised |-> FALSE,
     calls |-> <<>>]

\* What is kept of a call once the next one is made.
Remembered(call) ==
    IF call.op \in {"get_devices", "invalidate_cache"} /\ ~call.raised
    THEN call.op ELSE "other"

MInit ==
    /\ ~inited
    /\ \E o1 \in OpenRazerInitOutcomes, o2 \in UndervoltInitOutcomes :
          LET s == InitAll(o1, o2) IN
          /\ backends' = s.backends
          /\ bad_init' = s.bad_init
          /\ not_installed' = s.not_installed
          /\ import_errors' = s.import_errors
          /\ init_log' = [attempted |-> s.attempted, propagated |-> s.propagated,
                          outcomes |-> <<o1, o2>>]
          /\ troubleshooters' = IF s.propagated THEN troubleshooters
                                ELSE troubleshooters \cup {"openrazer"}
          /\ last' = [NoCall EXCEPT !.op = "init", !.raised = s.propagated,
                                    !.kind = IF s.propagated THEN "raise" ELSE "None"]
    /\ inited' = TRUE
    /\ prev' = Remembered(last)
    /\ UNCHANGED <<device_cache, cache_sources, loaded, hw, daemon_up, cpuinfo_brand, fxvars>>

\* ------------------------------------------------------- the device cache
\* The fill without the loop that sets device.backend.
Stamp_Keep(devs, b) == devs

\* for device in device_list: device.backend = backend
Stamp(devs, b) == [i \in 1..Len(devs) |-> [devs[i] EXCEPT !.backend = b]]

\* The loop of _reload_device_cache_if_empty from the i-th backend on.
RECURSIVE ReloadFrom(_, _, _, _, _, _, _, _)
ReloadFrom(i, bs, cache, sources, calls, attached, up, brand) ==
    IF i > Len(bs)
    THEN [cache |-> cache, sources |-> sources, calls |-> calls, raised |-> FALSE]
    ELSE LET b == bs[i]
             r == BackendGetDevices(b, attached, up, brand)
         IN  CASE r.kind = "raise" ->
                    [cache |-> cache, sources |-> sources,
                     calls |-> Append(calls, b), raised |-> TRUE]
               [] r.kind = "nonlist" ->
                    ReloadFrom(i + 1, bs, cache, sources, Append(calls, b),
                               attached, up, brand)
               [] OTHER ->
                    ReloadFrom(i + 1, bs, cache \o Stamp(r.devices, b),
                               Append(sources, b), Append(calls, b),
                               attached, up, brand)

\* _reload_device_cache_if_empty without its early return.
reload_device_cache_always(bs, cache, sources, attached, up, brand) ==
    ReloadFrom(1, bs, cache, sources, <<>>, attached, up, brand)

\* _reload_device_cache_if_empty whose loop ends at the first backend that
\* returns no list.
reload_device_cache_break(bs, cache, sources, attached, up, brand) ==
    IF cache # <<>>
    THEN [cache |-> cache, sources |-> sources, calls |-> <<>>, raised |-> FALSE]
    ELSE LET r == BackendGetDevices(bs[1], attached, up, brand) IN
         IF bs # <<>> /\ r.kind = "nonlist"
         THEN [cache |-> cache, sources |-> sources, calls |-> <<bs[1]>>,
               raised |-> FALSE]
         ELSE ReloadFrom(1, bs, cache, <<>>, <<>>, attached, up, brand)

\* Middleman._reload_device_cache_if_empty
reload_device_cache_if_empty(bs, cache, sources, attached, up, brand) ==
    IF cache # <<>>
    THEN [cache |-> cache, sources |-> sources, calls |-> <<>>, raised |-> FALSE]
    ELSE ReloadFrom(1, bs, cache, <<>>, <<>>, attached, up, brand)

\* Whether a load has completed once the cache was looked at: a cache that is
\* not empty is left as it is, an empty one is filled unless a backend raises.
LoadedAfter(cache, was, r) == IF cache # <<>> THEN was ELSE ~r.raised

ListResult(op, r) ==
    [NoCall EXCEPT !.op = op, !.raised = r.raised, !.calls = r.calls,
                   !.kind = IF r.raised THEN "raise" ELSE "list",
                   !.devices = IF r.raised THEN <<>> ELSE r.cache]

\* Middleman.get_devices
GetDevices ==
    LET r == reload_device_cache_if_empty(backends, device_cache, cache_sources,
                                          hw, daemon_up, cpuinfo_brand)
    IN  /\ device_cache' = r.cache
        /\ cache_sources' = r.sources
        /\ loaded' = LoadedAfter(device_cache, loaded, r)
        /\ last' = ListResult("get_devices", r)
        /\ prev' = Remembered(last)
        /\ UNCHANGED <<inited, backends, bad_init, not_installed, import_errors,
                       troubleshooters, init_log, hw, daemon_up, cpuinfo_brand,
                       fxvars>>

\* Middleman.get_devices_by_form_factor
GetDevicesByFormFactor ==
    \E ff \in FormFactors :
       LET r == reload_device_cache_if_empty(backends, device_cache, cache_sources,
                                             hw, daemon_up, cpuinfo_brand)
           found == SelectSeq(r.cache, LAMBDA d : d.form_factor = ff)
       IN  /\ device_cache' = r.cache
           /\ cache_sources' = r.sources
           /\ loaded' = LoadedAfter(device_cache, loaded, r)
           /\ last' = [ListResult("get_devices_by_form_factor", r) EXCEPT
                          !.key = ff,
                          !.devices = IF r.raised THEN <<>> ELSE found]
           /\ prev' = Remembered(last)
           /\ UNCHANGED <<inited, backends, bad_init, not_installed, import_errors,
                          troubleshooters, init_log, hw, daemon_up, cpuinfo_brand,
                          fxvars>>

\* Middleman.invalidate_cache
InvalidateCache ==
    /\ device_cache' = <<>>
    /\ cache_sources' = <<>>
    /\ loaded' = FALSE
    /\ last' = [NoCall EXCEPT !.op = "invalidate_cache"]
    /\ prev' = Remembered(last)
    /\ UNCHANGED <<inited, backends, bad_init, not_installed, import_errors,
                   troubleshooters, init_log, hw, daemon_up, cpuinfo_brand,
                   fxvars>>

\* reload_device_cache with the body of invalidate_cache.
ReloadDeviceCache_ClearOnly ==
    /\ device_cache' = <<>>
    /\ cache_sources' = <<>>
    /\ loaded' = FALSE
    /\ last' = [NoCall EXCEPT !.op = "reload_device_cache"]
    /\ prev' = Remembered(last)
    /\ UNCHANGED <<inited, backends, bad_init, not_installed, import_errors,
                   troubleshooters, init_log, hw, daemon_up, cpuinfo_brand,
                   fxvars>>

\* Middleman.reload_device_cache
ReloadDeviceCache ==
    LET r == reload_device_cache_if_empty(backends, <<>>, <<>>,
                                          hw, daemon_up, cpuinfo_brand)
    IN  /\ device_cache' = r.cache
        /\ cache_sources' = r.sources
        /\ loaded' = LoadedAfter(<<>>, loaded, r)
        /\ last' = [NoCall EXCEPT !.op = "reload_device_cache",
                                  !.raised = r.raised, !.calls = r.calls,
                                  !.kind = IF r.raised THEN "raise" ELSE "None"]
        /\ prev' = Remembered(last)
        /\ UNCHANGED <<inited, backends, bad_init, not_installed, import_errors,
                       troubleshooters, init_log, hw, daemon_up, cpuinfo_brand,
                       fxvars>>

\* ------------------------------------------------------------ device lookup
\* The scan of get_device_by_name/get_device_by_serial from the i-th backend
\* on, returning whatever the first backend answers that is not None.
RECURSIVE LookupFrom_AnyValue(_, _, _, _, _, _)
LookupFrom_AnyValue(i, bs, n, calls, attached, up) ==
    IF i > Len(bs)
    THEN [kind |-> "None", item |-> Unknown, from |-> "", calls |-> calls]
    ELSE LET r == BackendLookup(bs[i], n, attached, up) IN
         IF r.kind # "None"
         THEN [kind |-> r.kind, item |-> r.name, from |-> bs[i],
               calls |-> Append(calls, bs[i])]
         ELSE LookupFrom_AnyValue(i + 1, bs, n, Append(calls, bs[i]), attached, up)

\* The scan of get_device_by_name/get_device_by_serial from the i-th backend on.
RECURSIVE LookupFrom(_, _, _, _, _, _)
LookupFrom(i, bs, n, calls, attached, up) ==
    IF i > Len(bs)
    THEN [kind |-> "None", item |-> Unknown, from |-> "", calls |-> calls]
    ELSE LET r == BackendLookup(bs[i], n, attached, up) IN
         IF r.kind = "DeviceItem"
         THEN [kind |-> "DeviceItem", item |-> r.name, from |-> bs[i],
               calls |-> Append(calls, bs[i])]
         ELSE LookupFrom(i + 1, bs, n, Append(calls, bs[i]), attached, up)

LookupResult(op, n, r) ==
    [NoCall EXCEPT !.op = op, !.name = n, !.kind = r.kind, !.item = r.item,
                   !.from = r.from, !.calls = r.calls]

\* Middleman.get_device_by_name
GetDeviceByName ==
    /\ \E n \in DeviceNames \cup {Unknown} :
          last' = LookupResult("get_device_by_name", n,
                               LookupFrom(1, backends, n, <<>>, hw, daemon_up))
    /\ prev' = Remembered(last)
    /\ UNCHANGED <<loaded, inited, backends, bad_init, not_installed, import_errors,
                   troubleshooters, device_cache, cache_sources, init_log, hw,
                   daemon_up, cpuinfo_brand, fxvars>>

\* The device of a serial, Unknown when no device has it.
NameOfSerial(s) ==
    IF \E n \in DeviceNames : SerialOf(n) = s
    THEN CHOOSE n \in DeviceNames : SerialOf(n) = s
    ELSE Unknown

\* Middleman.get_device_by_serial
GetDeviceBySerial ==
    /\ \E s \in {SerialOf(n) : n \in DeviceNames \cup {Unknown}} :
          last' = LookupResult("get_device_by_serial", s,
                               LookupFrom(1, backends, NameOfSerial(s), <<>>,
                                          hw, daemon_up))
    /\ prev' = Remembered(last)
    /\ UNCHANGED <<loaded, inited, backends, bad_init, not_installed, import_errors,
                   troubleshooters, device_cache, cache_sources, init_log, hw,
                   daemon_up, cpuinfo_brand, fxvars>>

\* Middleman.troubleshoot: the lookup in self.troubleshooters and the call
\* are both inside the try block that catches KeyError.
troubleshoot(registered, backend, outcome) ==
    IF backend \notin registered THEN [kind |-> "None", raised |-> FALSE]
    ELSE CASE outcome = "results"  -> [kind |-> "results", raised |-> FALSE]
           [] outcome = "False"    -> [kind |-> "False", raised |-> FALSE]
           [] outcome = "KeyError" -> [kind |-> "None", raised |-> FALSE]
           [] OTHER                -> [kind |-> "raise", raised |-> TRUE]

Troubleshoot ==
    /\ \E b \in BackendIds, outcome \in TroubleshooterOutcomes :
          LET r == troubleshoot(troubleshooters, b, outcome) IN
          last' = [NoCall EXCEPT !.op = "troubleshoot", !.key = b,
                                 !.kind = r.kind, !.raised = r.raised,
                                 !.calls = IF b \in troubleshooters
                                           THEN <<outcome>> ELSE <<>>]
    /\ prev' = Remembered(last)
    /\ UNCHANGED <<loaded, inited, backends, bad_init, not_installed, import_errors,
                   troubleshooters, device_cache, cache_sources, init_log, hw,
                   daemon_up, cpuinfo_brand, fxvars>>

\* ------------------------------------------------------------- environment
\* Devices are inserted or removed, the daemon dies or comes back.
EnvChange ==
    /\ \E attached \in SUBSET DeviceNames, up \in BOOLEAN :
          /\ <<attached, up>> # <<hw, daemon_up>>
          /\ hw' = attached
          /\ daemon_up' = up
    /\ last' = [NoCall EXCEPT !.op = "env"]
    /\ prev' = Remembered(last)
    /\ UNCHANGED <<loaded, inited, backends, bad_init, not_installed, import_errors,
                   troubleshooters, device_cache, cache_sources, init_log,
                   cpuinfo_brand, fxvars>>

\* ----------------------------------------------------------- specification
NoFx == [op |-> "none", zone |-> 0, option |-> 0]

\* No option handed over yet.
NoOption ==
    [kind |-> "Effect", active |-> FALSE, value |-> 0, parameters |-> <<>>,
     colours |-> <<>>]

Serials == {SerialOf(n) : n \in DeviceNames}

\* Nothing recorded and nothing running for any serial.
NoSoftware ==
    [s \in Serials |-> [effect |-> "", preset |-> "", running |-> FALSE]]

\* Middleman.__init__, in an environment of any kind.
Init ==
    /\ inited = FALSE
    /\ backends = <<>>
    /\ bad_init = <<>>
    /\ not_installed = <<>>
    /\ import_errors = {}
    /\ troubleshooters = {}
    /\ device_cache = <<>>
    /\ cache_sources = <<>>
    /\ loaded = FALSE
    /\ init_log = [attempted |-> <<>>, propagated |-> FALSE, outcomes |-> <<>>]
    /\ hw \in SUBSET DeviceNames
    /\ daemon_up \in BOOLEAN
    /\ cpuinfo_brand \in BOOLEAN
    /\ last = NoCall
    /\ prev = "other"
    /\ device = <<>>
    /\ sw_effect = ""
    /\ applied = <<>>
    /\ started = <<>>
    /\ fx = NoFx
    /\ opt = NoOption
    /\ software = NoSoftware
    /\ sw_calls = <<>>

Next ==
    \/ MInit
    \/ GetDevices
    \/ GetDevicesByFormFactor
    \/ InvalidateCache
    \/ ReloadDeviceCache
    \/ GetDeviceByName
    \/ GetDeviceBySerial
    \/ Troubleshoot
    \/ EnvChange

Spec == Init /\ [][Next]_vars

\* ------------------------------------------------- zones, options, effects
OptionKinds == {"Effect", "Slider", "Toggle", "MultipleChoice"}

\* The parameter lists of an option: data tells the parameters apart.
ParamLists ==
    UNION {{[i \in 1..n |-> [data |-> i, active |-> f[i]]] : f \in [1..n -> BOOLEAN]}
           : n \in 0..MaxParams}

\* The options of a device whose options all carry the parameter list params
\* and the colour list colours.
OptionsWith(params, colours) ==
    [kind : OptionKinds, active : BOOLEAN, value : {0}, parameters : {params},
     colours : {colours}]

RECURSIVE SumTo(_, _)
SumTo(s, n) == IF n = 0 THEN 0 ELSE s[n] + SumTo(s, n - 1)

\* How many options each zone has.
Shapes ==
    UNION {{s \in [1..z -> 0..MaxOptions] : SumTo(s, z) <= MaxOptions}
           : z \in 0..MaxZones}

\* The zones of a device from the options of all zones in a row.
Zones(shape, flat) ==
    [z \in 1..Len(shape) |->
        [i \in 1..shape[z] |-> flat[SumTo(shape, z - 1) + i]]]

\* get_active_effect without the isinstance test.
get_active_effect_any_kind(zone) ==
    IF \E i \in 1..Len(zone) : zone[i].active
    THEN CHOOSE i \in 1..Len(zone) :
            zone[i].active /\ \A j \in 1..(i - 1) : ~zone[j].active
    ELSE 0

\* The loop of get_active_effect from the i-th option on.
RECURSIVE FirstActiveEffectFrom(_, _)
FirstActiveEffectFrom(zone, i) ==
    IF i > Len(zone) THEN 0
    ELSE IF zone[i].kind = "Effect" /\ zone[i].active THEN i
    ELSE FirstActiveEffectFrom(zone, i + 1)

\* Middleman.get_active_effect: the position of the option returned, 0 for None.
get_active_effect(zone) == FirstActiveEffectFrom(zone, 1)

\* The argument of option.apply() in _apply_option_with_same_params: the data
\* of the last active parameter, of the first parameter when none is active.
RECURSIVE ParamData(_, _, _)
ParamData(params, i, data) ==
    IF i > Len(params) THEN data
    ELSE ParamData(params, i + 1, IF params[i].active THEN params[i].data ELSE data)

\* _apply_option_with_same_params dispatching on the variant alone.
apply_option_with_same_params_by_kind(option) ==
    IF option.kind = "Toggle"
    THEN <<[arg |-> IF option.active THEN "True" ELSE "False", data |-> 0]>>
    ELSE IF option.kind = "Slider"
    THEN <<[arg |-> "value", data |-> option.value]>>
    ELSE <<[arg |-> "none", data |-> 0]>>

\* Middleman._apply_option_with_same_params: the apply() calls it issues.
apply_option_with_same_params(option) ==
    IF option.parameters # <<>>
    THEN <<[arg |-> "param", data |-> ParamData(option.parameters, 1,
                                                 option.parameters[1].data)]>>
    ELSE IF option.kind = "Toggle"
    THEN <<[arg |-> IF option.active THEN "True" ELSE "False", data |-> 0]>>
    ELSE IF option.kind = "Slider"
    THEN <<[arg |-> "value", data |-> option.value]>>
    ELSE IF option.kind \in {"Effect", "MultipleChoice"}
    THEN <<[arg |-> "none", data |-> 0]>>
    ELSE <<>>

ApplyCalls(dev, z, i) ==
    LET calls == apply_option_with_same_params(dev[z][i]) IN
    [k \in 1..Len(calls) |-> [zone |-> z, option |-> i, arg |-> calls[k].arg,
                              data |-> calls[k].data]]

\* The loop over device.zones of replay_active_effect from zone z on.
RECURSIVE ReplayFrom(_, _)
ReplayFrom(dev, z) ==
    IF z > Len(dev) THEN <<>>
    ELSE LET i == get_active_effect(dev[z]) IN
         (IF i # 0 /\ dev[z][i].active THEN ApplyCalls(dev, z, i) ELSE <<>>)
         \o ReplayFrom(dev, z + 1)

\* The serial of the device handed to the effect operations.
DeviceSerial == SerialOf(1)

\* The arguments of procmgr.start_component().
HelperArgs(effect, serial) == <<"--run-fx", effect, "--device-serial", serial>>

\* replay_active_effect replaying the hardware effects whatever is recorded.
replay_active_effect_hardware_first(dev, serial, effect) ==
    [applied |-> ReplayFrom(dev, 1),
     started |-> IF effect # "" THEN <<HelperArgs(effect, serial)>> ELSE <<>>]

\* Middleman.replay_active_effect after device.refresh(): the helper started
\* for a recorded software effect, else the hardware effects re-applied.
replay_active_effect(dev, serial, effect) ==
    IF effect # ""
    THEN [applied |-> <<>>, started |-> <<HelperArgs(effect, serial)>>]
    ELSE [applied |-> ReplayFrom(dev, 1), started |-> <<>>]

\* How many options the zones before zone z have.
RECURSIVE OptionsBefore(_, _)
OptionsBefore(dev, z) ==
    IF z <= 1 THEN 0 ELSE Len(dev[z - 1]) + OptionsBefore(dev, z - 1)

\* device.refresh(): every option re-reads its state, so the active flags are
\* whatever the hardware now reports.
Refreshed(dev) ==
    {[z \in 1..Len(dev) |->
         [i \in 1..Len(dev[z]) |->
             [dev[z][i] EXCEPT !.active = f[OptionsBefore(dev, z) + i]]]]
     : f \in [1..OptionsBefore(dev, Len(dev) + 1) -> BOOLEAN]}

GetActiveEffect ==
    /\ \E z \in 1..Len(device) :
          fx' = [op |-> "get_active_effect", zone |-> z,
                 option |-> get_active_effect(device[z])]
    /\ applied' = <<>>
    /\ started' = <<>>
    /\ UNCHANGED <<device, sw_effect, opt, software, sw_calls, midvars>>

ReplayActiveEffect ==
    /\ \E d \in Refreshed(device) :
          LET r == replay_active_effect(d, DeviceSerial, sw_effect) IN
          /\ device' = d
          /\ applied' = r.applied
          /\ started' = r.started
    /\ fx' = [op |-> "replay_active_effect", zone |-> 0, option |-> 0]
    /\ UNCHANGED <<sw_effect, opt, software, sw_calls, midvars>>

SoftwareEffects == {"", "fx1"}

\* A constructed Middleman and a device in any state.
InitFx ==
    /\ inited = FALSE
    /\ backends = <<>>
    /\ bad_init = <<>>
    /\ not_installed = <<>>
    /\ import_errors = {}
    /\ troubleshooters = {}
    /\ device_cache = <<>>
    /\ cache_sources = <<>>
    /\ loaded = FALSE
    /\ init_log = [attempted |-> <<>>, propagated |-> FALSE, outcomes |-> <<>>]
    /\ hw = {}
    /\ daemon_up = TRUE
    /\ cpuinfo_brand = TRUE
    /\ last = NoCall
    /\ prev = "other"
    /\ \E s \in Shapes, params \in ParamLists :
          \E flat \in [1..SumTo(s, Len(s)) -> OptionsWith(params, <<>>)] :
             device = Zones(s, flat)
    /\ sw_effect \in SoftwareEffects
    /\ applied = <<>>
    /\ started = <<>>
    /\ fx = NoFx
    /\ opt = NoOption
    /\ software = NoSoftware
    /\ sw_calls = <<>>

NextFx ==
    \/ GetActiveEffect
    \/ ReplayActiveEffect

SpecFx == InitFx /\ [][NextFx]_vars

\* ------------------------------------------------------ a single option
MaxOptParams == 2
MaxValue == 1

\* The parameter lists of the option: data tells the parameters apart, and
\* any number of them is active or default.
OptParamLists ==
    UNION {{[i \in 1..n |-> [data |-> i, active |-> a[i], default |-> d[i]]]
            : a \in [1..n -> BOOLEAN], d \in [1..n -> BOOLEAN]}
           : n \in 0..MaxOptParams}

OptionInputs ==
    [kind : OptionKinds, active : BOOLEAN, value : 0..MaxValue,
     parameters : OptParamLists, colours : {<<>>}]

\* The loop of get_active_parameter from the i-th parameter on.
RECURSIVE FirstActiveParamFrom(_, _)
FirstActiveParamFrom(params, i) ==
    IF i > Len(params) THEN 0
    ELSE IF params[i].active THEN i
    ELSE FirstActiveParamFrom(params, i + 1)

\* Middleman.get_active_parameter: the position of the parameter returned,
\* 0 for None.
get_active_parameter(option) == FirstActiveParamFrom(option.parameters, 1)

\* The loop of get_default_parameter from the i-th parameter on.
RECURSIVE FirstDefaultParamFrom(_, _)
FirstDefaultParamFrom(params, i) ==
    IF i > Len(params) THEN 0
    ELSE IF params[i].default THEN i
    ELSE FirstDefaultParamFrom(params, i + 1)

\* get_default_parameter without the loop over the default flags.
get_default_parameter_first(option) ==
    IF option.parameters = <<>> THEN 0 ELSE 1

\* Middleman.get_default_parameter: the position of the parameter returned,
\* 0 for None.
get_default_parameter(option) ==
    IF option.parameters = <<>> THEN 0
    ELSE LET i == FirstDefaultParamFrom(option.parameters, 1) IN
         IF i # 0 THEN i ELSE 1

GetActiveParameter ==
    /\ fx' = [op |-> "get_active_parameter", zone |-> 0,
              option |-> get_active_parameter(opt)]
    /\ applied' = <<>>
    /\ UNCHANGED <<device, sw_effect, started, opt, software, sw_calls, midvars>>

GetDefaultParameter ==
    /\ fx' = [op |-> "get_default_parameter", zone |-> 0,
              option |-> get_default_parameter(opt)]
    /\ applied' = <<>>
    /\ UNCHANGED <<device, sw_effect, started, opt, software, sw_calls, midvars>>

\* _apply_option_with_same_params reading the option and leaving it as it is.
ApplyOptionWithSameParams ==
    /\ fx' = [op |-> "_apply_option_with_same_params", zone |-> 0, option |-> 0]
    /\ applied' = apply_option_with_same_params(opt)
    /\ UNCHANGED <<device, sw_effect, started, opt, software, sw_calls, midvars>>

\* A constructed Middleman before init().
FreshMiddleman ==
    /\ inited = FALSE
    /\ backends = <<>>
    /\ bad_init = <<>>
    /\ not_installed = <<>>
    /\ import_errors = {}
    /\ troubleshooters = {}
    /\ device_cache = <<>>
    /\ cache_sources = <<>>
    /\ loaded = FALSE
    /\ init_log = [attempted |-> <<>>, propagated |-> FALSE, outcomes |-> <<>>]
    /\ hw = {}
    /\ daemon_up = TRUE
    /\ cpuinfo_brand = TRUE
    /\ last = NoCall
    /\ prev = "other"

\* A constructed Middleman and an option in any state.
InitOpt ==
    /\ FreshMiddleman
    /\ device = <<>>
    /\ sw_effect = ""
    /\ applied = <<>>
    /\ started = <<>>
    /\ fx = NoFx
    /\ opt \in OptionInputs
    /\ software = NoSoftware
    /\ sw_calls = <<>>

NextOpt ==
    \/ GetActiveParameter
    \/ GetDefaultParameter
    \/ ApplyOptionWithSameParams

SpecOpt == InitOpt /\ [][NextOpt]_vars

\* ------------------------------------------------ colours of the effects
MaxColours == 2

Hexes == {"#000000", "#00FF00"}

\* The colour list every option of the device starts with.
StartColours == [c \in 1..MaxColours |-> "#000000"]

\* The parameter lists of the device's options: none, or one active parameter.
ColourParamLists == {<<>>, <<[data |-> 1, active |-> TRUE]>>}

\* set_colour_for_option storing the colour as the primary one.
set_colour_for_option_primary(dev, z, i, hex_value, colour_pos) ==
    LET d == [dev EXCEPT ![z][i].colours[1] = hex_value] IN
    [device |-> d, applied |-> ApplyCalls(d, z, i)]

\* Middleman.set_colour_for_option on option i of zone z: colour_pos counts
\* from 0.
set_colour_for_option(dev, z, i, hex_value, colour_pos) ==
    LET d == [dev EXCEPT ![z][i].colours[colour_pos + 1] = hex_value] IN
    [device |-> d, applied |-> ApplyCalls(d, z, i)]

\* The loop over device.zones of set_colour_for_active_effect_device from
\* zone z on.
RECURSIVE SetColourFrom(_, _, _, _, _)
SetColourFrom(dev, z, hex_value, colour_pos, calls) ==
    IF z > Len(dev) THEN [device |-> dev, applied |-> calls]
    ELSE LET i == get_active_effect(dev[z]) IN
         IF i # 0
         THEN LET r == set_colour_for_option(dev, z, i, hex_value, colour_pos) IN
              SetColourFrom(r.device, z + 1, hex_value, colour_pos,
                            calls \o r.applied)
         ELSE SetColourFrom(dev, z + 1, hex_value, colour_pos, calls)

\* Middleman.set_colour_for_active_effect_device
set_colour_for_active_effect_device(dev, hex_value, colour_pos) ==
    SetColourFrom(dev, 1, hex_value, colour_pos, <<>>)

SetColourForActiveEffectDevice ==
    /\ \E hex_value \in Hexes, colour_pos \in 0..(MaxColours - 1) :
          LET r == set_colour_for_active_effect_device(device, hex_value,
                                                       colour_pos) IN
          /\ device' = r.device
          /\ applied' = r.applied
          /\ fx' = [op |-> "set_colour_for_active_effect_device", zone |-> 0,
                    option |-> 0, hex |-> hex_value, pos |-> colour_pos]
    /\ UNCHANGED <<sw_effect, started, opt, software, sw_calls, midvars>>

\* A constructed Middleman and a device whose options hold their colours.
InitColour ==
    /\ FreshMiddleman
    /\ \E s \in Shapes, params \in ColourParamLists :
          \E flat \in [1..SumTo(s, Len(s)) -> OptionsWith(params, StartColours)] :
             device = Zones(s, flat)
    /\ sw_effect = ""
    /\ applied = <<>>
    /\ started = <<>>
    /\ fx = NoFx
    /\ opt = NoOption
    /\ software = NoSoftware
    /\ sw_calls = <<>>

NextColour == SetColourForActiveEffectDevice

SpecColour == InitColour /\ [][NextColour]_vars

\* --------------------------------------------- software effects by serial
Presets == {"", "preset1"}

\* What procpid holds for one serial: DeviceSoftwareState's recorded effect and
\* preset, and whether ProcessManager finds another instance running.
SoftwareStates == [effect : SoftwareEffects, preset : Presets, running : BOOLEAN]

\* stop_software_effect stopping only for a recorded effect.
stop_software_effect_only_effect(st) ==
    LET first == IF st.effect # ""
                 THEN [state |-> [st EXCEPT !.running = FALSE, !.effect = ""],
                       calls |-> <<"stop", "clear_effect">>]
                 ELSE [state |-> st, calls |-> <<>>]
    IN  IF first.state.preset # ""
        THEN [state |-> [first.state EXCEPT !.preset = ""],
              calls |-> Append(first.calls, "clear_preset")]
        ELSE first

\* Middleman.stop_software_effect on what procpid holds for the serial: the
\* state it leaves and the calls it makes, in order.
stop_software_effect(st) ==
    LET first == IF st.effect # "" \/ st.running
                 THEN [state |-> [st EXCEPT !.running = FALSE, !.effect = ""],
                       calls |-> <<"stop", "clear_effect">>]
                 ELSE [state |-> st, calls |-> <<>>]
    IN  IF first.state.preset # ""
        THEN [state |-> [first.state EXCEPT !.preset = ""],
              calls |-> Append(first.calls, "clear_preset")]
        ELSE first

StopSoftwareEffect ==
    /\ \E serial \in Serials :
          LET r == stop_software_effect(software[serial]) IN
          /\ software' = [software EXCEPT ![serial] = r.state]
          /\ sw_calls' = r.calls
          /\ fx' = [op |-> "stop_software_effect", zone |-> 0, option |-> 0,
                    serial |-> serial, before |-> software[serial]]
    /\ UNCHANGED <<device, sw_effect, applied, started, opt, midvars>>

\* A constructed Middleman and whatever procpid holds for each serial.
InitSw ==
    /\ FreshMiddleman
    /\ device = <<>>
    /\ sw_effect = ""
    /\ applied = <<>>
    /\ started = <<>>
    /\ fx = NoFx
    /\ opt = NoOption
    /\ software \in [Serials -> SoftwareStates]
    /\ sw_calls = <<>>

NextSw == StopSoftwareEffect

SpecSw == InitSw /\ [][NextSw]_vars

\* ================================================================= claims
Occurrences(seq, id) == Cardinality({i \in 1..Len(seq) : seq[i] = id})

Places(id) ==
    Occurrences(backends, id) + Occurrences(bad_init, id)
    + Occurrences(not_installed, id) + (IF id \in import_errors THEN 1 ELSE 0)

\* C1: after init() on a fresh Middleman, whatever each backend's import,
\* construction and init() came to, every known backend id is in exactly one
\* of backends, bad_init, not_installed and import_errors.
C1_ExactlyOneCollection ==
    inited => \A id \in BackendIds : Places(id) = 1

C1_Witness ==
    /\ inited
    /\ "openrazer" \in import_errors
    /\ backends = <<"undervolt">>

Collection(outcome) ==
    CASE outcome = "init_true"   -> backends
      [] outcome = "init_false"  -> bad_init
      [] outcome = "ImportError" -> not_installed
      [] OTHER                   -> <<>>

\* C2: init() isolates the backends: however openrazer fails, undervolt is
\* still attempted and lands in the collection of its own outcome, and no
\* exception leaves init().
C2_Isolation ==
    inited =>
        /\ init_log.attempted = KnownBackends
        /\ ~init_log.propagated
        /\ ~last.raised \/ last.op # "init"
        /\ LET o2 == init_log.outcomes[2] IN
           IF o2 = "Exception" THEN "undervolt" \in import_errors
           ELSE Occurrences(Collection(o2), "undervolt") = 1

C2_Witness ==
    /\ inited
    /\ init_log.outcomes[1] = "Exception"
    /\ init_log.outcomes[2] = "init_true"
    /\ backends = <<"undervolt">>

C4_RequeriesEveryBackendOnce ==
    (last.op = "get_devices" /\ prev = "invalidate_cache")
        => last.calls = backends

C4_Witness ==
    /\ last.op = "get_devices"
    /\ prev = "invalidate_cache"
    /\ Len(backends) = 2
    /\ ~daemon_up

\* C5: the cache fill is all-or-nothing: device_cache is empty or holds the
\* device lists of every running backend, also when a backend's get_devices()
\* raises or returns no list.
C5_AllOrNothing ==
    device_cache = <<>> \/ cache_sources = backends

\* C6 as claimed: reload_device_cache() behaves as invalidate_cache() does,
\* leaving device_cache cleared and calling no backend.
C6_ReloadAsInvalidate ==
    last.op = "reload_device_cache"
        => (device_cache = <<>> /\ last.calls = <<>>)

\* What the OpenRazer daemon has to show at the moment.
Attached ==
    IF daemon_up /\ \E i \in 1..Len(backends) : backends[i] = "openrazer"
    THEN Stamp(ItemsFrom(1, hw), "openrazer") ELSE <<>>

\* C6 amended: invalidate_cache() only clears device_cache and calls no
\* backend, whereas reload_device_cache() clears it and queries the backends
\* at once, in registration order, leaving in device_cache what they return.
C6_InvalidateLazyReloadEager ==
    /\ last.op = "invalidate_cache" => (device_cache = <<>> /\ last.calls = <<>>)
    /\ last.op = "reload_device_cache"
          => (last.calls = backends /\ device_cache = Attached)

C6_Witness ==
    /\ last.op = "reload_device_cache"
    /\ Len(device_cache) = MaxDevices
    /\ Len(last.calls) = 2

\* The backends, by position, whose lookup of device n yields a DeviceItem.
Reporting(n) ==
    {i \in 1..Len(backends) :
        backends[i] = "openrazer" /\ daemon_up /\ n \in hw}

Least(S) == CHOOSE i \in S : \A j \in S : i <= j

\* C7: get_device_by_name() and get_device_by_serial() scan the backends in
\* registration order and return the DeviceItem of the first backend that
\* yields one; when no backend reports the device (a lookup that returns
\* nothing included) they return None and raise nothing.
C7_FirstMatchOrNone ==
    last.op \in {"get_device_by_name", "get_device_by_serial"} =>
        LET n == IF last.op = "get_device_by_name" THEN last.name
                 ELSE NameOfSerial(last.name)
        IN  /\ ~last.raised
            /\ IF Reporting(n) = {}
               THEN last.kind = "None" /\ last.calls = backends
               ELSE /\ last.kind = "DeviceItem"
                    /\ last.item = n
                    /\ last.from = backends[Least(Reporting(n))]
                    /\ last.calls = SubSeq(backends, 1, Least(Reporting(n)))

C7_Witness ==
    /\ last.op = "get_device_by_serial"
    /\ last.kind = "DeviceItem"
    /\ last.from = "openrazer"
    /\ Len(backends) = 2

ActiveEffects(zone) ==
    {j \in 1..Len(zone) : zone[j].kind = "Effect" /\ zone[j].active}

\* C8: get_active_effect(zone) returns the first option of zone.options that
\* is an Effect option with its active flag set, None when there is none
\* (an active option of another kind is never returned), and the one active
\* Effect option when there is exactly one.
C8_FirstActiveEffect ==
    fx.op = "get_active_effect" =>
        LET act == ActiveEffects(device[fx.zone]) IN
        IF act = {} THEN fx.option = 0
        ELSE fx.option \in act /\ \A j \in act : fx.option <= j

C8_Witness ==
    /\ fx.op = "get_active_effect"
    /\ fx.option = 2
    /\ device[fx.zone][1].active

AppliedIn(z) == {k \in 1..Len(applied) : applied[k].zone = z}

\* C9: replay_active_effect(device), after device.refresh(), starts the
\* helper for the recorded software effect and the device's serial and
\* re-applies no hardware option; only when no software effect is recorded
\* does it re-apply the active Effect option of each zone, once per zone that
\* has one.
C9_SoftwareEffectBeforeHardware ==
    fx.op = "replay_active_effect" =>
        IF sw_effect # ""
        THEN /\ started = <<HelperArgs(sw_effect, DeviceSerial)>>
             /\ applied = <<>>
        ELSE /\ started = <<>>
             /\ \A k \in 1..Len(applied) : applied[k].zone \in 1..Len(device)
             /\ \A k \in 1..(Len(applied) - 1) : applied[k].zone < applied[k + 1].zone
             /\ \A z \in 1..Len(device) :
                   IF ActiveEffects(device[z]) = {} THEN AppliedIn(z) = {}
                   ELSE /\ Cardinality(AppliedIn(z)) = 1
                        /\ \A k \in AppliedIn(z) :
                              applied[k].option = Least(ActiveEffects(device[z]))

C9_Witness ==
    /\ fx.op = "replay_active_effect"
    /\ sw_effect # ""
    /\ \E z \in 1..Len(device) : ActiveEffects(device[z]) # {}

\* C10: troubleshoot(backend_id) returns None exactly when no troubleshooter
\* is registered for backend_id; a registered troubleshooter's outcome,
\* an internal error included, is told apart from not-available.
C10_NoneIffNotRegistered ==
    (last.op = "troubleshoot" /\ ~last.raised)
        => (last.kind = "None" <=> last.key \notin troubleshooters)

\* C11: get_default_parameter returns None for an option without parameters,
\* else the first parameter in list order whose default flag is set, and the
\* first parameter of the list when no parameter is marked default.
C11_FirstDefaultOrFirst ==
    fx.op = "get_default_parameter" =>
        LET params == opt.parameters
            defaults == {i \in 1..Len(params) : params[i].default}
        IN  /\ params = <<>> => fx.option = 0
            /\ defaults # {} => fx.option = Least(defaults)
            /\ (params # <<>> /\ defaults = {}) => fx.option = 1

\* A later parameter is the first default one and is the one returned.
C11_Witness ==
    /\ fx.op = "get_default_parameter"
    /\ Len(opt.parameters) = 2
    /\ ~opt.parameters[1].default
    /\ opt.parameters[2].default
    /\ fx.option = 2

\* C12: an empty device_cache means that no load has completed or that
\* invalidate_cache() has run since the last one: after a completed load by
\* get_devices() or reload_device_cache() with no later invalidation the
\* cache is not empty, so a further get_devices() asks no backend again.
C12_EmptyMeansNotLoaded ==
    device_cache = <<>> => ~loaded

\* C13: _apply_option_with_same_params issues exactly one option.apply call:
\* with a parameter's data when the option has parameters, whatever its
\* variant; otherwise a Toggle with its active flag, a Slider with its value,
\* an Effect or MultipleChoice with no argument; and it leaves the option's
\* active, value, colours and parameters as they were.
C13_OneApplyPerVariant ==
    [][fx'.op = "_apply_option_with_same_params" =>
          /\ opt' = opt
          /\ Len(applied') = 1
          /\ IF opt.parameters # <<>>
             THEN /\ applied'[1].arg = "param"
                  /\ \E i \in 1..Len(opt.parameters) :
                        applied'[1].data = opt.parameters[i].data
             ELSE CASE opt.kind = "Toggle" ->
                         applied'[1].arg = (IF opt.active THEN "True" ELSE "False")
                    [] opt.kind = "Slider" ->
                         applied'[1] = [arg |-> "value", data |-> opt.value]
                    [] OTHER -> applied'[1].arg = "none"]_vars

\* An Effect with parameters has been re-applied with a parameter's data.
C13_Witness ==
    /\ fx.op = "_apply_option_with_same_params"
    /\ opt.kind = "Effect"
    /\ Len(opt.parameters) = 2
    /\ Len(applied) = 1
    /\ applied[1].arg = "param"

\* The devices a backend's get_devices() can return, as it returns them.
Returnable(b) ==
    LET r == BackendGetDevices(b, DeviceNames, TRUE, TRUE) IN
    {r.devices[i] : i \in 1..Len(r.devices)}

\* C14: every DeviceItem in device_cache carries a backend back-reference
\* that is a member of Middleman.backends and is the backend whose
\* get_devices() returned the device, whatever sequence of get_devices(),
\* get_devices_by_form_factor(), reload_device_cache() and invalidate_cache()
\* led to the state.
C14_BackReference ==
    \A k \in 1..Len(device_cache) :
        LET d == device_cache[k] IN
        /\ \E i \in 1..Len(backends) : backends[i] = d.backend
        /\ \E i \in 1..Len(cache_sources) : cache_sources[i] = d.backend
        /\ \E r \in Returnable(d.backend) : d = [r EXCEPT !.backend = d.backend]

\* Two backends run and a reload has put every device into the cache.
C14_Witness ==
    /\ last.op \in {"reload_device_cache", "get_devices_by_form_factor"}
    /\ Len(backends) = 2
    /\ Len(device_cache) = MaxDevices
    /\ prev = "invalidate_cache"

\* C15: for an option with parameters, the data that
\* _apply_option_with_same_params passes to option.apply is the data of the
\* parameter get_active_parameter returns, the first active one, whenever a
\* parameter is active, several active ones included, and the data of the
\* first parameter when none is active.
C15_AppliesActiveParameter ==
    (fx.op = "_apply_option_with_same_params" /\ opt.parameters # <<>>) =>
        LET i == get_active_parameter(opt) IN
        /\ Len(applied) = 1
        /\ applied[1].data = opt.parameters[IF i # 0 THEN i ELSE 1].data

\* Whether option i is the one get_active_effect is to return for the zone.
IsTarget(zone, i) == ActiveEffects(zone) # {} /\ i = Least(ActiveEffects(zone))

\* C16: set_colour_for_active_effect_device(device, hex, pos) sets
\* colours[pos] to hex on the option get_active_effect returns for each zone
\* that has an active Effect option and re-applies that option exactly once;
\* every other option of the device keeps its colours and gets no apply call.
C16_OnlyActiveEffects ==
    [][fx'.op = "set_colour_for_active_effect_device" =>
          /\ Len(device') = Len(device)
          /\ \A z \in 1..Len(device) :
                /\ Len(device'[z]) = Len(device[z])
                /\ \A i \in 1..Len(device[z]) :
                      LET calls == {k \in 1..Len(applied') :
                                      /\ applied'[k].zone = z
                                      /\ applied'[k].option = i}
                      IN  IF IsTarget(device[z], i)
                          THEN /\ device'[z][i] =
                                    [device[z][i] EXCEPT
                                        !.colours[fx'.pos + 1] = fx'.hex]
                               /\ Cardinality(calls) = 1
                          ELSE /\ device'[z][i] = device[z][i]
                               /\ calls = {}]_vars

\* Two zones have an active effect, both got the secondary colour and one
\* apply call each.
C16_Witness ==
    /\ fx.op = "set_colour_for_active_effect_device"
    /\ fx.pos = 1
    /\ fx.hex = "#00FF00"
    /\ Len(device) = 2
    /\ \A z \in 1..2 :
          /\ ActiveEffects(device[z]) # {}
          /\ device[z][1].colours = <<"#000000", "#00FF00">>
    /\ Len(applied) = 2

\* C17: after stop_software_effect(serial) the software state of the serial
\* records no effect and no preset, whatever was recorded or running before;
\* the helper process is stopped, before the effect record is cleared, exactly
\* when an effect was recorded or another instance was running; and when
\* there was no effect, no preset and no instance nothing is stopped or
\* cleared.
C17_StopClearsEffectAndPreset ==
    fx.op = "stop_software_effect" =>
        LET before == fx.before
            now == software[fx.serial]
            stops == {k \in 1..Len(sw_calls) : sw_calls[k] = "stop"}
            clears == {k \in 1..Len(sw_calls) : sw_calls[k] = "clear_effect"}
        IN  /\ now.effect = ""
            /\ now.preset = ""
            /\ stops # {} <=> (before.effect # "" \/ before.running)
            /\ stops # {} => (~now.running /\ \A k \in clears : \A j \in stops : j < k)
            /\ before.effect # "" => clears # {}
            /\ (before.effect = "" /\ before.preset = "" /\ ~before.running)
                  => (sw_calls = <<>> /\ now = before)

\* An instance was running with no effect recorded, and a preset was recorded.
C17_Witness ==
    /\ fx.op = "stop_software_effect"
    /\ fx.before = [effect |-> "", preset |-> "preset1", running |-> TRUE]
    /\ sw_calls = <<"stop", "clear_effect", "clear_preset">>

====
